---- MODULE Spec2Model ----
(***************************************************************************)
(* A model of script.py: convert_elixir_to_txt walks a source tree, skips  *)
(* every directory named deps, and copies each *.ex / *.exs file into one  *)
(* flat output directory under a sanitised, collision-resolved name, with  *)
(* one log line per file.                                                  *)
(*                                                                         *)
(* Strings are sequences of one-character strings, so that the filter, the *)
(* stem/suffix split, the sanitising and the name building are computed    *)
(* character by character as the code computes them.                       *)
(***************************************************************************)
EXTENDS Naturals, Sequences, FiniteSets

\* ------------------------------------------------------------------ bounds

\* The largest number of files a modelled source tree holds.
MaxFiles == 3

\* The number of distinct values the modelled path digest takes (md5's first
\* eight hex digits take 16^8; any finite range has collisions).
NumHashes == 2

\* ------------------------------------------------------- program constants

\* hexdigest()[:8]
HashLen == 8

\* ------------------------------------------------------------------ strings

DotEx == <<".", "e", "x">>
DotExs == <<".", "e", "x", "s">>
DotTxt == <<".", "t", "x", "t">>
Underscore == <<"_">>
Slash == <<"/">>
DepsName == <<"d", "e", "p", "s">>
ADir == <<"a">>
CDir == <<"c">>
SubDir == <<"s", "u", "b">>
LogName == <<"_", "c", "o", "n", "v", "e", "r", "s", "i", "o", "n", "_",
             "l", "o", "g", ".", "t", "x", "t">>

\* str.isalnum() on the characters the model uses.
AlnumChars == {"a", "b", "c", "d", "e", "m", "p", "s", "u", "v", "x",
               "0", "1", "2", "3", "4", "5", "6", "7", "8", "9"}

\* ord(c): the byte str.encode() yields for each character the model uses.
Ord(c) ==
    CASE c = " " -> 32  [] c = "!" -> 33  [] c = "-" -> 45  [] c = "." -> 46
      [] c = "/" -> 47  [] c = "_" -> 95  [] c = "a" -> 97  [] c = "b" -> 98
      [] c = "c" -> 99 
      [] c = "d" -> 100 [] c = "e" -> 101 [] c = "m" -> 109 [] c = "p" -> 112
      [] c = "s" -> 115 [] c = "t" -> 116 [] c = "u" -> 117 [] c = "v" -> 118
      [] c = "x" -> 120 [] OTHER -> 63

HexDigits == <<"0", "1", "2", "3", "4", "5", "6", "7",
               "8", "9", "a", "b", "c", "d", "e", "f">>

\* str.endswith(suf)
EndsWith(s, suf) ==
    /\ Len(s) >= Len(suf)
    /\ SubSeq(s, Len(s) - Len(suf) + 1, Len(s)) = suf

\* str.rfind('.') as a 1-based index, 0 when there is no dot.
RFindDot(s) ==
    LET dots == {i \in 1..Len(s) : s[i] = "."}
    IN  IF dots = {} THEN 0 ELSE CHOOSE i \in dots : \A j \in dots : j <= i

\* ------------------------------------------------------------- source tree

RootDir == <<>>

\* The directories of the modelled source tree, each a sequence of names.
Dirs == {RootDir, <<ADir>>, <<CDir>>, <<DepsName>>, <<DepsName, SubDir>>,
         <<ADir, DepsName>>}

\* The file names a directory may hold.
UtilEx == <<"u", ".", "e", "x">>
BangEx == <<"u", "!", ".", "e", "x">>
UnderEx == <<"u", "_", ".", "e", "x">>
BareEx == DotEx
UtilExs == <<"u", ".", "e", "x", "s">>
TwoDotExs == <<"u", ".", "v", ".", "e", "x", "s">>
ReadmeMd == <<"m", ".", "m", "d">>

File(d, n) == [dir |-> d, name |-> n]

\* The places a file may sit in a modelled tree.
Placements ==
    {File(RootDir, UtilEx), File(<<ADir>>, UtilEx), File(<<CDir>>, UtilEx),
     File(<<ADir>>, BangEx), File(<<ADir>>, UnderEx),
     File(RootDir, BareEx), File(<<CDir>>, TwoDotExs),
     File(RootDir, ReadmeMd),
     File(<<DepsName, SubDir>>, UtilEx),
     File(<<ADir, DepsName>>, UtilExs)}

Trees == {t \in SUBSET Placements : Cardinality(t) <= MaxFiles}

\* What happens when a file is copied: the copy succeeds, opening or reading
\* the source raises, or writing the opened output raises.
IOKinds == {"ok", "read_error", "write_error"}

\* ------------------------------------------------------------------- state

VARIABLES
    tree,             \* the source tree: the files of the directories Dirs
    io,               \* per file, what copying it does (IOKinds)
    pc,               \* idle, walk (between directories), files, done
    stack,            \* os.walk's pending directories, innermost level first
    root,             \* the directory being processed
    files,            \* the files of root not yet iterated over
    processed_files,  \* the output names assigned in this run
    log,              \* the lines written to _conversion_log.txt
    outdir,           \* the output directory: file name -> file
    new_filename,     \* per processed file, the name it was given
    opened,           \* the source files open() was called on
    rerun,            \* whether this is the second run over the tree
    prev_filename,    \* new_filename at the end of the first run
    prev_log          \* log at the end of the first run

vars == <<tree, io, pc, stack, root, files, processed_files, log, outdir,
          new_filename, opened, rerun, prev_filename, prev_log>>

\* ------------------------------------------------------------------ naming

\* os.walk's root for a directory: source_dir "." joined with each name.
RootPath(d) ==
    IF d = <<>> THEN <<".">>
    ELSE LET RECURSIVE Join(_)
             Join(k) == IF k = 0 THEN <<".">>
                        ELSE Join(k - 1) \o Slash \o d[k]
         IN  Join(Len(d))

\* source_file = os.path.join(root, file)
SourcePath(f) == RootPath(f.dir) \o Slash \o f.name

\* os.path.relpath(source_file, source_dir): the path without the leading "./".
RelPath(f) == SubSeq(SourcePath(f), 3, Len(SourcePath(f)))

\* Only the .ex files are taken.
MatchesExOnly(file) == EndsWith(file, DotEx)

\* file.endswith('.ex') or file.endswith('.exs')
Matches(file) == EndsWith(file, DotEx) \/ EndsWith(file, DotExs)

\* Path(file).suffix: the text from the last dot on, unless that dot is the
\* first or the last character of the name, and then the empty string.
Suffix(file) ==
    LET i == RFindDot(file)
    IN  IF 1 < i /\ i < Len(file) THEN SubSeq(file, i, Len(file)) ELSE <<>>

\* Path(file).stem: the name without its suffix.
Stem(file) ==
    LET i == RFindDot(file)
    IN  IF 1 < i /\ i < Len(file) THEN SubSeq(file, 1, i - 1) ELSE file

\* c if c.isalnum() or c in ('-', '_') else '_'
SafeChar(c) == IF c \in AlnumChars \/ c \in {"-", "_"} THEN c ELSE "_"

\* The sanitised base name followed by the original extension.
SafeName(file) ==
    [i \in 1..Len(Stem(file)) |-> SafeChar(Stem(file)[i])] \o Suffix(file)

\* new_filename = f"{safe_name}.txt"
Candidate(file) == SafeName(file) \o DotTxt

\* The digest of the path string as a number below NumHashes: a polynomial
\* checksum of the encoded characters stands for md5.
Digest(path) ==
    LET RECURSIVE Roll(_)
        Roll(k) == IF k = 0 THEN 0
                   ELSE (Roll(k - 1) * 31 + Ord(path[k])) % NumHashes
    IN  Roll(Len(path))

\* hexdigest()[:8]: the number in eight lower-case hex digits.
Hex8(n) ==
    LET RECURSIVE Pow16(_)
        Pow16(k) == IF k = 0 THEN 1 ELSE 16 * Pow16(k - 1)
    IN  [i \in 1..HashLen |-> HexDigits[((n \div Pow16(HashLen - i)) % 16) + 1]]

\* path_hash = hashlib.md5(source_file.encode()).hexdigest()[:8]
PathHash(source_file) == Hex8(Digest(source_file))

\* The digest is taken of the file name, not of the path.
HashedNameOfFile(file, source_file) ==
    SafeName(file) \o Underscore \o PathHash(file) \o DotTxt

\* f"{safe_name}_{path_hash}.txt"
HashedName(file, source_file) ==
    SafeName(file) \o Underscore \o PathHash(source_file) \o DotTxt

\* The final output filename: the candidate, or the hashed name when the
\* candidate is in processed_files already.
NewFilename(file, source_file, seen) ==
    IF Candidate(file) \in seen
    THEN HashedName(file, source_file)
    ELSE Candidate(file)

\* ----------------------------------------------------------------- walking

\* The names of a directory's subdirectories, as os.walk lists them.
SubdirNames(d) ==
    {e[Len(e)] : e \in {x \in Dirs : Len(x) = Len(d) + 1
                                     /\ SubSeq(x, 1, Len(d)) = d}}

\* Only a deps directory right under the source directory is removed.
RemoveDepsAtTop(d, dirs) == IF d = RootDir THEN dirs \ {DepsName} ELSE dirs

\* if 'deps' in dirs: dirs.remove('deps')
RemoveDeps(d, dirs) == dirs \ {DepsName}

\* The directories os.walk descends into from d, given the pruned dirs.
Descend(d, dirs) == {Append(d, n) : n \in dirs}

\* A level of pending directories put on the stack; an empty level is none.
Push(level, s) == IF level = {} THEN s ELSE <<level>> \o s

\* --------------------------------------------------------------- the output

\* The decoded text of a source file: src.read(). Distinct files hold
\* distinct text.
Content(f) == <<"#">> \o SourcePath(f)

\* The three metadata lines that depend on the file.
Header(f) == [filename |-> f.name, path |-> RelPath(f), ext |-> Suffix(f.name)]

\* The output file after a copy that ran to the end.
Written(f) == [kind |-> "copy", complete |-> TRUE, header |-> Header(f),
               body |-> Content(f)]

\* The output file after open(output_file, 'w') and a failing write.
Truncated(f) == [kind |-> "copy", complete |-> FALSE, header |-> Header(f),
                 body |-> <<>>]

LogFile == [kind |-> "log", complete |-> TRUE,
            header |-> [filename |-> <<>>, path |-> <<>>, ext |-> <<>>],
            body |-> <<>>]

\* The four header lines and the blank line written before the walk.
LogHeader ==
    [i \in 1..4 |-> [kind |-> "HEADER", src |-> <<>>, name |-> <<>>]]

\* The line the file's copy leaves in the log.
LogLine(f, name, kind) ==
    IF kind = "ok"
    THEN [kind |-> "SUCCESS", src |-> SourcePath(f), name |-> name]
    ELSE [kind |-> "ERROR", src |-> SourcePath(f), name |-> <<>>]

\* The output directory after open/read/write of one file.
Copy(dir, f, name, kind) ==
    CASE kind = "ok" ->
           [n \in DOMAIN dir \cup {name} |-> IF n = name THEN Written(f) ELSE dir[n]]
      [] kind = "write_error" ->
           [n \in DOMAIN dir \cup {name} |-> IF n = name THEN Truncated(f) ELSE dir[n]]
      [] OTHER -> dir

\* An exception of the copy leaves the function.
PcPropagate(kind) == IF kind = "ok" THEN "files" ELSE "done"

\* except Exception: the loop goes on with the next file whatever happened.
PcAfterFile(kind) == "files"

\* The set is replaced by the new name.
AddProcessedOnly(seen, name) == {name}

\* processed_files.add(new_filename)
AddProcessed(seen, name) == seen \cup {name}

\* The names of the run before are kept.
KeptProcessedFiles == processed_files

\* processed_files = set()
NewProcessedFiles == {}

\* ------------------------------------------------------------------ actions

\* The files the walk may open: a file it never opens has no outcome to
\* choose, and is given "ok".
MayBeOpened(f) ==
    Matches(f.name) /\ \A i \in 1..Len(f.dir) : f.dir[i] # DepsName

Init ==
    /\ tree \in Trees
    /\ io \in [tree -> IOKinds]
    /\ \A f \in tree : ~MayBeOpened(f) => io[f] = "ok"
    /\ pc = "idle"
    /\ stack = <<>>
    /\ root = RootDir
    /\ files = {}
    /\ processed_files = {}
    /\ log = <<>>
    /\ outdir = <<>>
    /\ new_filename = <<>>
    /\ opened = {}
    /\ rerun = FALSE
    /\ prev_filename = <<>>
    /\ prev_log = <<>>

\* Lines 16-29: the output directory, the set, the log header, os.walk.
StartRun ==
    /\ pc = "idle"
    /\ pc' = "walk"
    /\ processed_files' = NewProcessedFiles
    /\ log' = LogHeader
    /\ outdir' = [n \in {LogName} |-> LogFile]
    /\ stack' = <<{RootDir}>>
    /\ root' = RootDir
    /\ files' = {}
    /\ new_filename' = <<>>
    /\ opened' = {}
    /\ UNCHANGED <<tree, io, rerun, prev_filename, prev_log>>

\* Lines 29-32: os.walk yields the next directory, in any order among the
\* pending ones of the innermost level, and deps is removed from its dirs.
NextDir ==
    /\ pc = "walk"
    /\ stack # <<>>
    /\ \E d \in Head(stack) :
         /\ root' = d
         /\ files' = {f \in tree : f.dir = d}
         /\ stack' = Push(Descend(d, RemoveDeps(d, SubdirNames(d))),
                          Push(Head(stack) \ {d}, Tail(stack)))
    /\ pc' = "files"
    /\ UNCHANGED <<tree, io, processed_files, log, outdir, new_filename,
                   opened, rerun, prev_filename, prev_log>>

\* Lines 34-37: a file that is no .ex or .exs file is passed over.
SkipFile ==
    /\ pc = "files"
    /\ \E f \in files :
         /\ ~Matches(f.name)
         /\ files' = files \ {f}
    /\ UNCHANGED <<tree, io, pc, stack, root, processed_files, log, outdir,
                   new_filename, opened, rerun, prev_filename, prev_log>>

\* Lines 34-79: one .ex or .exs file is named, copied and logged.
ConvertFile ==
    /\ pc = "files"
    /\ \E f \in files :
         /\ Matches(f.name)
         /\ LET name == NewFilename(f.name, SourcePath(f), processed_files)
            IN  /\ processed_files' = AddProcessed(processed_files, name)
                /\ new_filename' =
                     [g \in DOMAIN new_filename \cup {f} |->
                        IF g = f THEN name ELSE new_filename[g]]
                /\ opened' = opened \cup {f}
                /\ outdir' = Copy(outdir, f, name, io[f])
                /\ log' = Append(log, LogLine(f, name, io[f]))
                /\ pc' = PcAfterFile(io[f])
         /\ files' = files \ {f}
    /\ UNCHANGED <<tree, io, stack, root, rerun, prev_filename, prev_log>>

\* Line 34: the files of the directory are exhausted.
EndDir ==
    /\ pc = "files"
    /\ files = {}
    /\ pc' = "walk"
    /\ UNCHANGED <<tree, io, stack, root, files, processed_files, log, outdir,
                   new_filename, opened, rerun, prev_filename, prev_log>>

\* Line 29: os.walk is exhausted; the log is closed and the function returns.
Finish ==
    /\ pc = "walk"
    /\ stack = <<>>
    /\ pc' = "done"
    /\ UNCHANGED <<tree, io, stack, root, files, processed_files, log, outdir,
                   new_filename, opened, rerun, prev_filename, prev_log>>

\* The conversion is called once more on the unchanged tree, with another
\* (fresh) output directory.
RunAgain ==
    /\ pc = "done"
    /\ ~rerun
    /\ rerun' = TRUE
    /\ prev_filename' = new_filename
    /\ prev_log' = log
    /\ pc' = "idle"
    /\ UNCHANGED <<tree, io, stack, root, files, processed_files, log, outdir,
                   new_filename, opened>>

Next == StartRun \/ NextDir \/ SkipFile \/ ConvertFile \/ EndDir \/ Finish

Spec == Init /\ [][Next]_vars

NextTwice == Next \/ RunAgain

\* Two runs of the conversion over one tree.
SpecTwice == Init /\ [][NextTwice]_vars

\* ------------------------------------------------------------- the claims

\* The filter and the exclusion as the specification words them.
IsElixirName(n) == EndsWith(n, DotEx) \/ EndsWith(n, DotExs)

UnderDeps(d) == \E i \in 1..Len(d) : d[i] = DepsName

Eligible(f) == IsElixirName(f.name) /\ ~UnderDeps(f.dir)

\* The log lines about a file, and the file a log line is about.
LinesFor(f) == {i \in 1..Len(log) : log[i].src = SourcePath(f)}

FileLines == {i \in 1..Len(log) : log[i].kind # "HEADER"}

FileOf(i) == CHOOSE f \in tree : SourcePath(f) = log[i].src

Processed == DOMAIN new_filename

\* The source paths in the order a log names them.
Order(l) == [i \in 1..Len(l) |-> l[i].src]

\* C1: within one run the output filenames given to distinct matched files
\* are pairwise distinct.
C1_OutputNamesDistinct ==
    \A f, g \in Processed : f # g => new_filename[f] # new_filename[g]

\* C2: when the run is complete every .ex/.exs file outside deps has exactly
\* one log line, a SUCCESS or an ERROR line; every other file has none (and
\* no file ever has more than one).
C2_OneLogLinePerMatchedFile ==
    /\ \A f \in tree :
         /\ Cardinality(LinesFor(f)) <= 1
         /\ \A i \in LinesFor(f) : log[i].kind \in {"SUCCESS", "ERROR"}
         /\ ~Eligible(f) => LinesFor(f) = {}
    /\ pc = "done" =>
         \A f \in tree : Eligible(f) => Cardinality(LinesFor(f)) = 1

C2_Witness ==
    /\ pc = "done"
    /\ \E f, g, h \in tree :
         /\ Eligible(f) /\ \E i \in LinesFor(f) : log[i].kind = "SUCCESS"
         /\ Eligible(g) /\ \E i \in LinesFor(g) : log[i].kind = "ERROR"
         /\ ~IsElixirName(h.name) /\ LinesFor(h) = {}

\* C3: no file under a directory named deps, at any depth, is ever opened,
\* logged or copied, and no directory named deps or below one is ever
\* pending in the walk or walked.
C3_DepsNeverVisited ==
    /\ \A f \in tree :
         UnderDeps(f.dir) =>
           /\ f \notin opened
           /\ LinesFor(f) = {}
           /\ \A n \in DOMAIN outdir : outdir[n].header.path # RelPath(f)
    /\ \A i \in 1..Len(stack) : \A d \in stack[i] : ~UnderDeps(d)
    /\ ~UnderDeps(root)

C3_Witness ==
    /\ pc = "done"
    /\ \E f, g \in tree :
         /\ f.dir = <<ADir, DepsName>> /\ IsElixirName(f.name)
         /\ g.dir = <<DepsName, SubDir>> /\ IsElixirName(g.name)
    /\ \E h \in opened : h.dir = <<ADir>>

\* C4: a failing read or write leaves exactly one ERROR line for its file
\* and the run goes on: at its end every matched file, after however many
\* failures, was processed and has its line.
C4_FailureDoesNotAbort ==
    /\ \A f \in Processed :
         io[f] # "ok" =>
           /\ Cardinality(LinesFor(f)) = 1
           /\ \A i \in LinesFor(f) : log[i].kind = "ERROR"
    /\ pc = "done" =>
         \A f \in tree :
           Eligible(f) => f \in Processed /\ Cardinality(LinesFor(f)) = 1

C4_Witness ==
    /\ pc = "done"
    /\ \E i, j, k \in FileLines :
         /\ i < j /\ j < k
         /\ log[i].kind = "ERROR" /\ log[j].kind = "ERROR"
         /\ log[k].kind = "SUCCESS"

\* C5: at the end of a run into a fresh output directory, a matched file that
\* could not be read has one ERROR line and the output directory holds no
\* file of the name that was assigned to it.
C5_UnreadableLeavesNoOutput ==
    pc = "done" =>
      \A f \in Processed :
        io[f] = "read_error" =>
          /\ Cardinality(LinesFor(f)) = 1
          /\ \A i \in LinesFor(f) : log[i].kind = "ERROR"
          /\ new_filename[f] \notin DOMAIN outdir

\* C6: at the end of a run, the output file named on a SUCCESS line holds
\* the header of the source file of that line and, after it, exactly that
\* source file's decoded content.
C6_SuccessBodyIsSourceContent ==
    pc = "done" =>
      \A i \in FileLines :
        log[i].kind = "SUCCESS" =>
          /\ log[i].name \in DOMAIN outdir
          /\ outdir[log[i].name].complete
          /\ outdir[log[i].name].header = Header(FileOf(i))
          /\ outdir[log[i].name].body = Content(FileOf(i))

\* C7 (as stated): two runs over the unchanged tree give every file the same
\* output filename, whatever order each run walks the tree in.
C7_SameNamesInBothRuns ==
    (rerun /\ pc = "done") => new_filename = prev_filename

\* C7 (amended): two runs over the unchanged tree that come upon the matched
\* files in the same order give every file the same output filename.
C7_SameOrderSameNames ==
    (rerun /\ pc = "done" /\ Order(log) = Order(prev_log))
      => new_filename = prev_filename

C7_Witness ==
    /\ rerun /\ pc = "done" /\ Order(log) = Order(prev_log)
    /\ \E f, g \in Processed :
         /\ new_filename[f] = Candidate(f.name)
         /\ new_filename[g] # Candidate(g.name)
         /\ Candidate(g.name) = Candidate(f.name)

\* C8: among the matched files of one candidate name, the first that the
\* walk comes upon gets the candidate name and every later one gets the safe
\* name, "_", the eight hex digits of the digest of its own path, ".txt".
C8_FirstPlainLaterHashed ==
    \A i \in FileLines :
      LET f == FileOf(i)
          earlier == {j \in FileLines :
                        j < i /\ SafeName(FileOf(j).name) = SafeName(f.name)}
      IN  /\ f \in Processed
          /\ new_filename[f] =
               IF earlier = {}
               THEN SafeName(f.name) \o DotTxt
               ELSE SafeName(f.name) \o Underscore
                      \o Hex8(Digest(SourcePath(f))) \o DotTxt

C8_Witness ==
    \E i, j, k \in FileLines :
      /\ i < j /\ j < k
      /\ Candidate(FileOf(i).name) = Candidate(FileOf(j).name)
      /\ Candidate(FileOf(j).name) = Candidate(FileOf(k).name)
      /\ new_filename[FileOf(i)] = Candidate(FileOf(i).name)
      /\ new_filename[FileOf(j)] # Candidate(FileOf(j).name)
      /\ new_filename[FileOf(k)] # Candidate(FileOf(k).name)

\* Whether a name ends in ext, "_", eight hex digits, ".txt".
EndsHashed(name, ext) ==
    LET n == Len(name)
        tail == Len(ext) + 1 + HashLen + Len(DotTxt)
    IN  /\ n >= tail
        /\ SubSeq(name, n - tail + 1, n - tail + Len(ext)) = ext
        /\ name[n - tail + Len(ext) + 1] = "_"
        /\ \A k \in 1..HashLen :
             \E h \in 1..Len(HexDigits) :
               name[n - tail + Len(ext) + 1 + k] = HexDigits[h]
        /\ EndsWith(name, DotTxt)

\* C9: for every filename the filter accepts, the split yields the extension
\* .ex or .exs and the base name without it, and the output filename ends in
\* .ex.txt, .exs.txt, .ex_<8hex>.txt or .exs_<8hex>.txt.
C9_SplitYieldsElixirExtension ==
    \A f \in Processed :
      /\ Suffix(f.name) \in {DotEx, DotExs}
      /\ Stem(f.name) \o Suffix(f.name) = f.name
      /\ \/ EndsWith(new_filename[f], DotEx \o DotTxt)
         \/ EndsWith(new_filename[f], DotExs \o DotTxt)
         \/ EndsHashed(new_filename[f], DotEx)
         \/ EndsHashed(new_filename[f], DotExs)

\* C10: the name given to a file is in processed_files from then on, whether
\* its copy succeeded or failed, so a later file of the same candidate name
\* gets the hashed name even when the earlier one failed.
C10_NamesStayReserved ==
    /\ \A f \in Processed : new_filename[f] \in processed_files
    /\ \A i, j \in FileLines :
         (i < j /\ Candidate(FileOf(i).name) = Candidate(FileOf(j).name))
           => new_filename[FileOf(j)] # Candidate(FileOf(j).name)

C10_Witness ==
    \E i, j \in FileLines :
      /\ i < j
      /\ log[i].kind = "ERROR" /\ io[FileOf(i)] = "read_error"
      /\ Candidate(FileOf(i).name) = Candidate(FileOf(j).name)
      /\ log[j].kind = "SUCCESS"
      /\ new_filename[FileOf(j)] # Candidate(FileOf(j).name)
      /\ new_filename[FileOf(i)] \in processed_files
      /\ Candidate(FileOf(j).name) \notin DOMAIN outdir

====
